---- MODULE Spec2Model ----
(***************************************************************************)
(* azurerm_managed_disk: the Create / Read / Update / Delete handlers of   *)
(* internal/services/compute/managed_disk_resource.go as a state machine.  *)
(*                                                                         *)
(* One handler runs at a time.  A handler's local validation and payload   *)
(* construction is one step; every call that leaves the handler (the Disks *)
(* client, the lock manager, the VM shutdown helper, d.SetId, the final    *)
(* Read) is a step of its own and is appended to `trace`, so the order of  *)
(* the calls can be stated.  What the remote API answers is drawn from the *)
(* outcomes the SDK can return.                                            *)
(*                                                                         *)
(* Optional values (Go pointers) are sequences: <<>> is nil, <<v>> is &v.  *)
(***************************************************************************)
EXTENDS Integers, Sequences, FiniteSets, TLC

\* The largest number of attributes one plan changes (Update) or sets (Create).
MaxChanged == 2
NumUpdates == 3

Nil == <<>>
Ptr(v) == <<v>>

(***************************************************************************)
(* Values of the schema                                                    *)
(***************************************************************************)
StandardLRS == "Standard_LRS"
PremiumLRS == "Premium_LRS"
PremiumZRS == "Premium_ZRS"
PremiumVTwoLRS == "PremiumV2_LRS"
UltraSSDLRS == "UltraSSD_LRS"

\* disks.PossibleValuesForDiskStorageAccountTypes(), as the update loops range over it
PossibleValuesForDiskStorageAccountTypes ==
    <<"PremiumV2_LRS", "Premium_LRS", "Premium_ZRS", "StandardSSD_LRS",
      "StandardSSD_ZRS", "Standard_LRS", "UltraSSD_LRS">>

\* storage_account_type as a handler can read it: the validated spellings and,
\* because the attribute suppresses case differences, a spelling kept from state
ConfigStorageAccountTypes == {StandardLRS, PremiumLRS, PremiumZRS, PremiumVTwoLRS, UltraSSDLRS}
StateStorageAccountTypes == ConfigStorageAccountTypes \cup {"ultrassd_lrs"}

ToLower(s) ==
    CASE s = "PremiumV2_LRS" -> "premiumv2_lrs"
      [] s = "Premium_LRS" -> "premium_lrs"
      [] s = "Premium_ZRS" -> "premium_zrs"
      [] s = "StandardSSD_LRS" -> "standardssd_lrs"
      [] s = "StandardSSD_ZRS" -> "standardssd_zrs"
      [] s = "Standard_LRS" -> "standard_lrs"
      [] s = "UltraSSD_LRS" -> "ultrassd_lrs"
      [] OTHER -> s

EqualFold(a, b) == ToLower(a) = ToLower(b)

NetworkAccessPolicyAllowAll == "AllowAll"
NetworkAccessPolicyAllowPrivate == "AllowPrivate"
NetworkAccessPolicyDenyAll == "DenyAll"

DiskSizes == {0, 256, 1024}
MaxSharesValues == {0, 2, 3}
Tiers == {"P30", "P40"}
EncryptionSettingsLists == {<<>>, <<"A">>, <<"B">>}

\* the ID Create computes for the disk, and a VM the disk can be attached to
DiskId == "/disks/disk1"
VmId == "/virtualMachines/vm1"
OtherVmId == "/virtualMachines/vm2"
MalformedVmId == "not-a-vm-id"

(***************************************************************************)
(* ResourceData: the attributes a handler reads                            *)
(***************************************************************************)
HasChange(rd, key) == key \in rd.changed
Get(rd, key) == rd.new[key]

\* the attributes Update looks at with d.HasChange
UpdateKeys ==
    {"max_shares", "tier", "tags", "storage_account_type", "disk_iops_read_write",
     "disk_mbps_read_write", "disk_iops_read_only", "disk_mbps_read_only",
     "optimized_frequent_attach_enabled", "os_type", "disk_size_gb", "encryption_settings",
     "disk_encryption_set_id", "network_access_policy", "disk_access_id",
     "public_network_access_enabled", "on_demand_bursting_enabled"}

\* an attribute whose every change replaces the resource
StaticForceNewKeys == {"name"}

VARIABLES id, op, pc, d, env, disk, payload, shouldShutDown, shouldDetach,
          locks, trace, sent, result, written,
          updates    \* the Update invocations that run concurrently, each on its own disk

vars == <<id, op, pc, d, env, disk, payload, shouldShutDown, shouldDetach,
          locks, trace, sent, result, written, updates>>

(***************************************************************************)
(* resourceManagedDiskUpdate: validation and payload construction          *)
(***************************************************************************)
\* disks.DiskUpdate{Properties: &disks.DiskUpdateProperties{}}
EmptyDiskUpdate ==
    [Sku |-> Nil, Tags |-> Nil, MaxShares |-> Nil, Tier |-> Nil,
     DiskIOPSReadWrite |-> Nil, DiskMBpsReadWrite |-> Nil,
     DiskIOPSReadOnly |-> Nil, DiskMBpsReadOnly |-> Nil,
     OptimizedForFrequentAttach |-> Nil, OsType |-> Nil, DiskSizeGB |-> Nil,
     EncryptionSettingsCollection |-> Nil, Encryption |-> Nil,
     NetworkAccessPolicy |-> Nil, DiskAccessId |-> Nil,
     PublicNetworkAccess |-> Nil, BurstingEnabled |-> Nil]

\* the locals of resourceManagedDiskUpdate while it builds the payload; res is
\* "ok" until a return statement ("error") or a nil dereference ("panic") ends it
UpdateLocals ==
    [res |-> "ok", shouldShutDown |-> FALSE, shouldDetach |-> FALSE,
     diskUpdate |-> EmptyDiskUpdate]

\* the loop over PossibleValuesForDiskStorageAccountTypes: the last spelling that
\* matches storageAccountType case-insensitively, else the zero value
SkuNameFor(storageAccountType) ==
    LET vs == PossibleValuesForDiskStorageAccountTypes
        hits == {i \in 1..Len(vs) : EqualFold(storageAccountType, vs[i])}
    IN IF hits = {} THEN ""
       ELSE vs[CHOOSE i \in hits : \A j \in hits : j <= i]

\* the body of expandManagedDiskEncryptionSettings is not part of this file: the
\* collection it returns is kept as a value that names the list it was built from
expandManagedDiskEncryptionSettings(settings) == [expandedFrom |-> settings]

UpdateMaxShares(rd, st) ==
    IF st.res # "ok" \/ ~HasChange(rd, "max_shares") THEN st
    ELSE [st EXCEPT !.diskUpdate.MaxShares = Ptr(Get(rd, "max_shares")),
                    !.diskUpdate.Sku = Ptr(SkuNameFor(Get(rd, "storage_account_type")))]

\* the tier check left out: any storage account type may carry a tier
TierAllowed_Always(storageAccountType) == TRUE

\* lines 493 and 651: storageAccountType != PremiumZRS && != PremiumLRS is refused
TierAllowed(storageAccountType) ==
    ~(storageAccountType # PremiumZRS /\ storageAccountType # PremiumLRS)

UpdateTier(rd, st) ==
    IF st.res # "ok" \/ ~HasChange(rd, "tier") THEN st
    ELSE IF ~TierAllowed(Get(rd, "storage_account_type")) THEN [st EXCEPT !.res = "error"]
    ELSE [st EXCEPT !.shouldShutDown = TRUE,
                    !.diskUpdate.Tier = Ptr(Get(rd, "tier"))]

UpdateTags(rd, st) ==
    IF st.res # "ok" \/ ~HasChange(rd, "tags") THEN st
    ELSE [st EXCEPT !.diskUpdate.Tags = Ptr(Get(rd, "tags"))]

\* a change of storage_account_type that does not ask for the VM to be shut down
UpdateStorageAccountType_NoShutDown(rd, st) ==
    IF st.res # "ok" \/ ~HasChange(rd, "storage_account_type") THEN st
    ELSE [st EXCEPT !.diskUpdate.Sku = Ptr(SkuNameFor(Get(rd, "storage_account_type")))]

\* lines 664-675
UpdateStorageAccountType(rd, st) ==
    IF st.res # "ok" \/ ~HasChange(rd, "storage_account_type") THEN st
    ELSE [st EXCEPT !.shouldShutDown = TRUE,
                    !.diskUpdate.Sku = Ptr(SkuNameFor(Get(rd, "storage_account_type")))]

\* the max_shares check left out of the read-only limits
ReadOnlyAllowed_Always(maxShares) == TRUE

\* lines 389, 397, 691, 700: the read-only limits are refused when maxShares == 0
ReadOnlyAllowed(maxShares) == ~(maxShares = 0)

UpdateIOPS(rd, st) ==
    LET storageAccountType == Get(rd, "storage_account_type")
        maxShares == Get(rd, "max_shares")
        s1 == IF HasChange(rd, "disk_iops_read_write")
              THEN [st EXCEPT !.diskUpdate.DiskIOPSReadWrite = Ptr(Get(rd, "disk_iops_read_write"))]
              ELSE st
        s2 == IF HasChange(rd, "disk_mbps_read_write")
              THEN [s1 EXCEPT !.diskUpdate.DiskMBpsReadWrite = Ptr(Get(rd, "disk_mbps_read_write"))]
              ELSE s1
        s3 == IF ~HasChange(rd, "disk_iops_read_only") THEN s2
              ELSE IF ~ReadOnlyAllowed(maxShares) THEN [s2 EXCEPT !.res = "error"]
              ELSE [s2 EXCEPT !.diskUpdate.DiskIOPSReadOnly = Ptr(Get(rd, "disk_iops_read_only"))]
        s4 == IF s3.res # "ok" \/ ~HasChange(rd, "disk_mbps_read_only") THEN s3
              ELSE IF ~ReadOnlyAllowed(maxShares) THEN [s3 EXCEPT !.res = "error"]
              ELSE [s3 EXCEPT !.diskUpdate.DiskMBpsReadOnly = Ptr(Get(rd, "disk_mbps_read_only"))]
    IN IF st.res # "ok" THEN st
       ELSE IF EqualFold(storageAccountType, UltraSSDLRS) \/ storageAccountType = PremiumVTwoLRS
            THEN s4
       ELSE IF HasChange(rd, "disk_iops_read_write") \/ HasChange(rd, "disk_mbps_read_write")
               \/ HasChange(rd, "disk_iops_read_only") \/ HasChange(rd, "disk_mbps_read_only")
            THEN [st EXCEPT !.res = "error"]
       ELSE st

UpdateFrequentAttachAndOsType(rd, st) ==
    LET s1 == IF HasChange(rd, "optimized_frequent_attach_enabled")
              THEN [st EXCEPT !.diskUpdate.OptimizedForFrequentAttach =
                                   Ptr(Get(rd, "optimized_frequent_attach_enabled"))]
              ELSE st
    IN IF st.res # "ok" THEN st
       ELSE IF HasChange(rd, "os_type")
            THEN [s1 EXCEPT !.diskUpdate.OsType = Ptr(Get(rd, "os_type"))]
       ELSE s1

\* a resize that accepts any new size
SizeGrows_Always(oldSize, newSize) == TRUE

\* line 721: newSize.(int) > oldSize.(int)
SizeGrows(oldSize, newSize) == newSize > oldSize

\* e carries what the calls made while resizing answer: the provider feature flag,
\* determineIfDataDiskRequiresDetaching, determineIfDataDiskSupportsNoDowntimeResize
\* and determineIfVirtualMachineSupportsNoDowntimeResize ("true", "false", "error")
UpdateDiskSize(rd, e, st) ==
    LET oldSize == rd.old["disk_size_gb"]
        newSize == Get(rd, "disk_size_gb")
        detach == IF e.ExpandWithoutDowntime THEN e.requiresDetaching ELSE st.shouldDetach
        canBeResizedWithoutDowntime ==
            IF e.ExpandWithoutDowntime
            THEN e.vmSupportsNoDowntimeResize = "true" /\ e.diskSupportsNoDowntimeResize
            ELSE FALSE
    IN IF st.res # "ok" \/ ~HasChange(rd, "disk_size_gb") THEN st
       ELSE IF SizeGrows(oldSize, newSize)
            THEN IF e.ExpandWithoutDowntime /\ e.vmSupportsNoDowntimeResize = "error"
                 THEN [st EXCEPT !.res = "error", !.shouldDetach = detach]
                 ELSE [st EXCEPT !.shouldDetach = detach,
                                 !.shouldShutDown = IF ~canBeResizedWithoutDowntime THEN TRUE ELSE @,
                                 !.diskUpdate.DiskSizeGB = Ptr(newSize)]
       ELSE [st EXCEPT !.res = "error"]

UpdateEncryptionSettings(rd, st) ==
    IF st.res # "ok" \/ ~HasChange(rd, "encryption_settings") THEN st
    ELSE [st EXCEPT !.diskUpdate.EncryptionSettingsCollection =
                        Ptr(expandManagedDiskEncryptionSettings(Get(rd, "encryption_settings")))]

\* e.encryptionTypeError: retrieveDiskEncryptionSetEncryptionType returned an error
UpdateDiskEncryptionSet(rd, e, st) ==
    LET diskEncryptionSetId == Get(rd, "disk_encryption_set_id") IN
    IF st.res # "ok" \/ ~HasChange(rd, "disk_encryption_set_id") THEN st
    ELSE IF diskEncryptionSetId # ""
         THEN IF e.encryptionTypeError
              THEN [st EXCEPT !.res = "error", !.shouldShutDown = TRUE]
              ELSE [st EXCEPT !.shouldShutDown = TRUE,
                              !.diskUpdate.Encryption =
                                  Ptr([Type |-> "EncryptionAtRestWithCustomerKey",
                                       DiskEncryptionSetId |-> diskEncryptionSetId])]
    ELSE [st EXCEPT !.res = "error", !.shouldShutDown = TRUE]

\* the switch dereferences diskUpdate.Properties.NetworkAccessPolicy, which is
\* nil unless network_access_policy has changed in the same plan
UpdateNetworkAccess(rd, st) ==
    LET s1 == IF HasChange(rd, "network_access_policy")
              THEN [st EXCEPT !.diskUpdate.NetworkAccessPolicy = Ptr(Get(rd, "network_access_policy"))]
              ELSE st
        policy == s1.diskUpdate.NetworkAccessPolicy
        diskAccessID == Get(rd, "disk_access_id")
    IN IF st.res # "ok" THEN st
       ELSE IF ~HasChange(rd, "disk_access_id") THEN s1
       ELSE IF policy = Nil THEN [s1 EXCEPT !.res = "panic"]
       ELSE IF policy[1] = NetworkAccessPolicyAllowPrivate
            THEN [s1 EXCEPT !.diskUpdate.DiskAccessId = Ptr(diskAccessID)]
       ELSE IF diskAccessID # "" /\ policy[1] # NetworkAccessPolicyAllowPrivate
            THEN [s1 EXCEPT !.res = "error"]
       ELSE [s1 EXCEPT !.diskUpdate.DiskAccessId = Nil]

UpdatePublicNetworkAccess(rd, st) ==
    IF st.res # "ok" \/ ~HasChange(rd, "public_network_access_enabled") THEN st
    ELSE [st EXCEPT !.diskUpdate.PublicNetworkAccess =
                        IF Get(rd, "public_network_access_enabled")
                        THEN Ptr("Enabled") ELSE Ptr("Disabled")]

BurstingAllowed(storageAccountType, diskSizeGB) ==
    /\ storageAccountType \in {PremiumLRS, PremiumZRS}
    /\ ~(diskSizeGB # 0 /\ diskSizeGB <= 512)

UpdateBursting(rd, st) ==
    LET onDemandBurstingEnabled == Get(rd, "on_demand_bursting_enabled") IN
    IF st.res # "ok" THEN st
    ELSE IF onDemandBurstingEnabled
            /\ ~BurstingAllowed(Get(rd, "storage_account_type"), Get(rd, "disk_size_gb"))
         THEN [st EXCEPT !.res = "error"]
    ELSE IF HasChange(rd, "on_demand_bursting_enabled")
         THEN [st EXCEPT !.shouldShutDown = TRUE,
                         !.diskUpdate.BurstingEnabled = Ptr(onDemandBurstingEnabled)]
    ELSE st

\* lines 633-806: the payload and the flags, or the error that ended the handler
BuildDiskUpdate(rd, e) ==
    UpdateBursting(rd,
     UpdatePublicNetworkAccess(rd,
      UpdateNetworkAccess(rd,
       UpdateDiskEncryptionSet(rd, e,
        UpdateEncryptionSettings(rd,
         UpdateDiskSize(rd, e,
          UpdateFrequentAttachAndOsType(rd,
           UpdateIOPS(rd,
            UpdateStorageAccountType(rd,
             UpdateTags(rd,
              UpdateTier(rd,
               UpdateMaxShares(rd, UpdateLocals))))))))))))

(***************************************************************************)
(* resourceManagedDiskUpdate: from the Get to the choice of the path       *)
(***************************************************************************)
\* commonids.ParseManagedDiskID(d.Id())
ParseManagedDiskID(rid) == IF rid = DiskId THEN "ok" ELSE "error"

\* virtualmachines.ParseVirtualMachineID(*disk.Model.ManagedBy)
ParseVirtualMachineID(managedBy) ==
    IF managedBy = VmId THEN [err |-> FALSE, VirtualMachineName |-> "vm1"]
    ELSE IF managedBy = OtherVmId THEN [err |-> FALSE, VirtualMachineName |-> "vm2"]
    ELSE [err |-> TRUE, VirtualMachineName |-> ""]

\* the check of lines 808-811 without its reset of shouldShutDown
AttachmentCheck_KeepsShutDown(resp, st) ==
    IF st.res # "ok" \/ ~st.shouldShutDown THEN st
    ELSE IF resp.Model = Nil THEN [st EXCEPT !.res = "panic"]
    ELSE st

\* "whilst we need to shut this down, if we're not attached to anything there's
\* no point": disk.Model is dereferenced only when shouldShutDown is set
AttachmentCheck(resp, st) ==
    IF st.res # "ok" \/ ~st.shouldShutDown THEN st
    ELSE IF resp.Model = Nil THEN [st EXCEPT !.res = "panic"]
    ELSE IF resp.Model[1].ManagedBy = Nil THEN [st EXCEPT !.shouldShutDown = FALSE]
    ELSE st

\* a handler that goes to the shutdown helper without taking the lock
ChoosePath_NoLock(resp, st0) ==
    LET st == AttachmentCheck(resp, st0)
        parsed == st.res = "ok" /\ st.shouldShutDown
        deref == parsed /\ resp.Model[1].ManagedBy = Nil
        vm == IF parsed /\ ~deref
              THEN ParseVirtualMachineID(resp.Model[1].ManagedBy[1])
              ELSE [err |-> FALSE, VirtualMachineName |-> ""]
    IN [res |-> IF deref THEN "panic" ELSE IF vm.err THEN "error" ELSE st.res,
        next |-> IF st.res # "ok" \/ deref \/ vm.err THEN "return"
                 ELSE IF st.shouldShutDown THEN "shutdown" ELSE "update",
        parsed |-> parsed /\ ~deref,
        vmErr |-> vm.err,
        shouldShutDown |-> st.shouldShutDown]

\* lines 808-818 for a Get that succeeded: what the handler has decided when it
\* reaches its first call after the payload st0 is built; next is "lock",
\* "update" or "return", and parsed tells that ParseVirtualMachineID has run
ChoosePath(resp, st0) ==
    LET st == AttachmentCheck(resp, st0)
        parsed == st.res = "ok" /\ st.shouldShutDown
        deref == parsed /\ resp.Model[1].ManagedBy = Nil
        vm == IF parsed /\ ~deref
              THEN ParseVirtualMachineID(resp.Model[1].ManagedBy[1])
              ELSE [err |-> FALSE, VirtualMachineName |-> ""]
    IN [res |-> IF deref THEN "panic" ELSE IF vm.err THEN "error" ELSE st.res,
        next |-> IF st.res # "ok" \/ deref \/ vm.err THEN "return"
                 ELSE IF st.shouldShutDown THEN "lock" ELSE "update",
        parsed |-> parsed /\ ~deref,
        vmErr |-> vm.err,
        shouldShutDown |-> st.shouldShutDown]

(***************************************************************************)
(* The plans the plugin framework hands to Update                          *)
(***************************************************************************)
ChangeSets == {s \in SUBSET (UpdateKeys \cup StaticForceNewKeys) : Cardinality(s) <= MaxChanged}

When(c, S, dflt) == IF c THEN S ELSE {dflt}

\* a ForceNew for every change of a non-empty encryption_settings
EncryptionSettingsForceNew_FromAny(old, new) == Len(old) > 0

\* CustomizeDiff: ForceNewIfChange("encryption_settings", ...)
EncryptionSettingsForceNew(old, new) == Len(old) > 0 /\ Len(new) = 0

\* the plan replaces the resource instead of updating it in place
RequiresNew(rd) ==
    \/ rd.changed \cap StaticForceNewKeys # {}
    \/ /\ HasChange(rd, "encryption_settings")
       /\ EncryptionSettingsForceNew(rd.old["encryption_settings"], Get(rd, "encryption_settings"))

\* what the Disks client's Get answers to Update
UpdateGetResponses ==
    {[err |-> "notfound", Model |-> Nil], [err |-> "other", Model |-> Nil],
     [err |-> "none", Model |-> Nil]}
    \cup {[err |-> "none", Model |-> Ptr([ManagedBy |-> m])] :
            m \in {Nil, Ptr(VmId), Ptr(MalformedVmId)}}

\* the models Update gets from a disk that is detached or attached to a VM
WellFormedModels ==
    {[err |-> "none", Model |-> Ptr([ManagedBy |-> m])] : m \in {Nil, Ptr(VmId)}}

NoEnv ==
    [ExpandWithoutDowntime |-> FALSE, requiresDetaching |-> FALSE,
     diskSupportsNoDowntimeResize |-> FALSE, vmSupportsNoDowntimeResize |-> "false",
     encryptionTypeError |-> FALSE]

\* the answers Update can get while it builds the payload for plan rd
UpdateEnvs(rd) ==
    LET grows == HasChange(rd, "disk_size_gb") /\ Get(rd, "disk_size_gb") > rd.old["disk_size_gb"]
        des == HasChange(rd, "disk_encryption_set_id") /\ Get(rd, "disk_encryption_set_id") # ""
    IN {e \in [ExpandWithoutDowntime : When(grows, BOOLEAN, FALSE),
               requiresDetaching : When(grows, BOOLEAN, FALSE),
               diskSupportsNoDowntimeResize : When(grows, BOOLEAN, FALSE),
               vmSupportsNoDowntimeResize : When(grows, {"true", "false", "error"}, "false"),
               encryptionTypeError : When(des, BOOLEAN, FALSE)] :
          \* an answer that is not asked for, or not used, stays at its zero value
          /\ ~e.ExpandWithoutDowntime =>
                 /\ ~e.requiresDetaching /\ ~e.diskSupportsNoDowntimeResize
                 /\ e.vmSupportsNoDowntimeResize = "false"
          /\ e.vmSupportsNoDowntimeResize = "error" =>
                 ~e.requiresDetaching /\ ~e.diskSupportsNoDowntimeResize
          /\ e.vmSupportsNoDowntimeResize = "false" => ~e.diskSupportsNoDowntimeResize}

\* the plans that change exactly the keys ch: the new value of every attribute
\* Update reads, and the old value of those it reads with GetChange.  An
\* attribute whose value Update does not use under this plan is left at its
\* zero value: an unchanged attribute read only under HasChange, max_shares
\* (used when it or a read-only limit has changed), and disk_size_gb (used when
\* it has changed or on_demand_bursting_enabled is set).  The size in state is the
\* one the API reported, so the old size of a changed disk_size_gb is not 0.
\* A changed Optional+Computed attribute has a value set in the configuration,
\* which the schema's validators have accepted.
PlansChanging(ch) ==
    {rd \in
       [changed : {ch},
        old : [disk_size_gb : When("disk_size_gb" \in ch, DiskSizes \ {0}, 0),
               encryption_settings :
                   When("encryption_settings" \in ch, EncryptionSettingsLists, <<>>)],
        new : [storage_account_type :
                   IF "storage_account_type" \in ch THEN ConfigStorageAccountTypes
                   ELSE StateStorageAccountTypes,
               max_shares : IF "max_shares" \in ch THEN MaxSharesValues \ {0}
                            ELSE When(ch \cap {"disk_iops_read_only", "disk_mbps_read_only"} # {},
                                      MaxSharesValues \ {3}, 0),
               disk_size_gb : IF "disk_size_gb" \in ch THEN DiskSizes \ {0} ELSE DiskSizes,
               on_demand_bursting_enabled : BOOLEAN,
               tier : When("tier" \in ch, Tiers, ""),
               tags : When("tags" \in ch, {"t1"}, ""),
               disk_iops_read_write : When("disk_iops_read_write" \in ch, {500}, 0),
               disk_mbps_read_write : When("disk_mbps_read_write" \in ch, {500}, 0),
               disk_iops_read_only : When("disk_iops_read_only" \in ch, {500}, 0),
               disk_mbps_read_only : When("disk_mbps_read_only" \in ch, {500}, 0),
               optimized_frequent_attach_enabled :
                   When("optimized_frequent_attach_enabled" \in ch, BOOLEAN, FALSE),
               os_type : When("os_type" \in ch, {"Linux", "Windows"}, ""),
               encryption_settings :
                   When("encryption_settings" \in ch, EncryptionSettingsLists, <<>>),
               disk_encryption_set_id :
                   When("disk_encryption_set_id" \in ch, {"", "des1"}, ""),
               network_access_policy :
                   When("network_access_policy" \in ch,
                        {NetworkAccessPolicyAllowAll, NetworkAccessPolicyAllowPrivate,
                         NetworkAccessPolicyDenyAll}, NetworkAccessPolicyAllowAll),
               disk_access_id : When("disk_access_id" \in ch, {"", "da1"}, ""),
               public_network_access_enabled :
                   When("public_network_access_enabled" \in ch, BOOLEAN, TRUE)]] :
       /\ "disk_size_gb" \in ch => rd.old.disk_size_gb # rd.new.disk_size_gb
       /\ "disk_size_gb" \notin ch /\ ~rd.new.on_demand_bursting_enabled
              => rd.new.disk_size_gb = 0
       /\ "encryption_settings" \in ch => rd.old.encryption_settings # rd.new.encryption_settings
       \* bursting that is already enabled was accepted with the storage account
       \* type and the size the disk still has
       /\ rd.new.on_demand_bursting_enabled /\ "on_demand_bursting_enabled" \notin ch
              => /\ "storage_account_type" \notin ch
                       => rd.new.storage_account_type \in {PremiumLRS, PremiumZRS}
                 /\ "disk_size_gb" \notin ch => ~(rd.new.disk_size_gb # 0 /\ rd.new.disk_size_gb <= 512)}

UpdatePlans == UNION {PlansChanging(ch) : ch \in ChangeSets}

(***************************************************************************)
(* resourceManagedDiskRead                                                 *)
(***************************************************************************)
\* the attributes Read sets from a model that has Properties
PropertyKeys ==
    {"create_option", "logical_sector_size", "gallery_image_reference_id",
     "image_reference_id", "performance_plus_enabled", "source_resource_id", "source_uri",
     "storage_account_id", "upload_size_bytes", "disk_size_gb", "disk_iops_read_write",
     "disk_mbps_read_write", "disk_iops_read_only", "disk_mbps_read_only",
     "optimized_frequent_attach_enabled", "os_type", "tier", "max_shares",
     "hyper_v_generation", "network_access_policy", "disk_access_id",
     "public_network_access_enabled", "disk_encryption_set_id"}

PropertyKeysAfterEncryptionSettings ==
    {"encryption_settings", "trusted_launch_enabled", "security_type",
     "secure_vm_disk_encryption_set_id", "on_demand_bursting_enabled"}

\* what the Disks client's Get answers to Read: an error, or a model (nil, without
\* Properties, or complete); fails names the later call of Read that returns an
\* error: d.Set("encryption_settings"), tags.FlattenAndSet, SetResourceIdentityData
ReadResponses ==
    {[err |-> "notfound", model |-> "nil", fails |-> "none"],
     [err |-> "other", model |-> "nil", fails |-> "none"],
     [err |-> "none", model |-> "nil", fails |-> "none"],
     [err |-> "none", model |-> "nil", fails |-> "identity"],
     [err |-> "none", model |-> "noprops", fails |-> "none"],
     [err |-> "none", model |-> "noprops", fails |-> "tags"],
     [err |-> "none", model |-> "noprops", fails |-> "identity"]}
    \cup {[err |-> "none", model |-> "full", fails |-> f] :
            f \in {"none", "encryption_settings", "tags", "identity"}}

\* a Read that keeps the ID of a disk that is gone
IdOfVanishedDisk_Kept(rid) == rid

\* line 852, d.SetId(""): the resource ID Read leaves when the disk is gone
IdOfVanishedDisk(rid) == ""

\* the handler: the resource ID it leaves, what it returns, the keys it has set
resourceManagedDiskRead(rid, resp) ==
    LET base == {"name", "resource_group_name"}
        top == {"location", "edge_zone", "zone", "storage_account_type"}
    IN IF ParseManagedDiskID(rid) # "ok"
       THEN [id |-> rid, res |-> "error", written |-> {}, got |-> FALSE]
       ELSE IF resp.err = "notfound"
       THEN [id |-> IdOfVanishedDisk(rid), res |-> "ok", written |-> {}, got |-> TRUE]
       ELSE IF resp.err # "none"
       THEN [id |-> rid, res |-> "error", written |-> {}, got |-> TRUE]
       ELSE IF resp.model = "nil"
       THEN [id |-> rid, res |-> IF resp.fails = "identity" THEN "error" ELSE "ok",
             written |-> base, got |-> TRUE]
       ELSE IF resp.model = "full" /\ resp.fails = "encryption_settings"
       THEN [id |-> rid, res |-> "error", written |-> base \cup top \cup PropertyKeys,
             got |-> TRUE]
       ELSE LET props == IF resp.model = "full"
                         THEN PropertyKeys \cup PropertyKeysAfterEncryptionSettings ELSE {}
            IN IF resp.fails = "tags"
               THEN [id |-> rid, res |-> "error", written |-> base \cup top \cup props,
                     got |-> TRUE]
               ELSE [id |-> rid, res |-> IF resp.fails = "identity" THEN "error" ELSE "ok",
                     written |-> base \cup top \cup props \cup {"tags"}, got |-> TRUE]

(***************************************************************************)
(* resourceManagedDiskCreate: validation and payload construction          *)
(***************************************************************************)
CreateOptions == {"Copy", "Empty", "FromImage", "Import", "ImportSecure", "Restore", "Upload"}

SecurityTypeCustomerKey == "ConfidentialVM_DiskEncryptedWithCustomerKey"
SecurityTypePlatformKey == "ConfidentialVM_DiskEncryptedWithPlatformKey"

\* the optional attributes whose presence decides a branch of Create
CreateKeys ==
    {"max_shares", "disk_size_gb", "disk_iops_read_write", "disk_mbps_read_write",
     "disk_iops_read_only", "disk_mbps_read_only", "logical_sector_size", "source_uri",
     "storage_account_id", "source_resource_id", "image_reference_id",
     "gallery_image_reference_id", "upload_size_bytes", "encryption_settings",
     "disk_encryption_set_id", "network_access_policy", "disk_access_id",
     "public_network_access_enabled", "tier", "trusted_launch_enabled", "security_type",
     "secure_vm_disk_encryption_set_id", "on_demand_bursting_enabled",
     "hyper_v_generation", "zone"}

\* ConflictsWith of the schema: the framework rejects a configuration that sets both
ConflictsWith ==
    {{"image_reference_id", "gallery_image_reference_id"},
     {"disk_encryption_set_id", "secure_vm_disk_encryption_set_id"}}

\* d.GetOk(key): the value is set and is not the zero value of its type
ZeroValue(key) ==
    CASE key \in {"max_shares", "disk_size_gb", "disk_iops_read_write", "disk_mbps_read_write",
                  "disk_iops_read_only", "disk_mbps_read_only", "logical_sector_size",
                  "upload_size_bytes"} -> 0
      [] key = "encryption_settings" -> <<>>
      [] OTHER -> ""

GetOk(rd, key) == Get(rd, key) # ZeroValue(key)

\* disks.Disk{...} as Create starts to fill it (lines 354-364, 566-575)
NewDisk(rd) ==
    [Sku |-> Get(rd, "storage_account_type"),
     Tags |-> Get(rd, "tags"),
     ExtendedLocation |-> Get(rd, "edge_zone"),
     Zones |-> Nil,
     CreateOption |-> Get(rd, "create_option"),
     PerformancePlus |-> Get(rd, "performance_plus_enabled"),
     OptimizedForFrequentAttach |-> Get(rd, "optimized_frequent_attach_enabled"),
     OsType |-> Get(rd, "os_type"),
     Encryption |-> [Type |-> "EncryptionAtRestWithPlatformKey", DiskEncryptionSetId |-> Nil],
     DiskSizeGB |-> Nil, MaxShares |-> Nil,
     DiskIOPSReadWrite |-> Nil, DiskMBpsReadWrite |-> Nil,
     DiskIOPSReadOnly |-> Nil, DiskMBpsReadOnly |-> Nil, LogicalSectorSize |-> Nil,
     StorageAccountId |-> Nil, SourceUri |-> Nil, SourceResourceId |-> Nil,
     ImageReference |-> Nil, GalleryImageReference |-> Nil, UploadSizeBytes |-> Nil,
     EncryptionSettingsCollection |-> Nil, NetworkAccessPolicy |-> Nil,
     DiskAccessId |-> Nil, PublicNetworkAccess |-> Nil, Tier |-> Nil,
     SecurityProfile |-> Nil, BurstingEnabled |-> Nil, HyperVGeneration |-> Nil]

CreateLocals(rd) == [res |-> "ok", createDisk |-> NewDisk(rd)]

\* lines 366-373
CreateSizeAndShares(rd, st) ==
    LET s1 == IF Get(rd, "disk_size_gb") # 0
              THEN [st EXCEPT !.createDisk.DiskSizeGB = Ptr(Get(rd, "disk_size_gb"))] ELSE st
    IN IF Get(rd, "max_shares") # 0
       THEN [s1 EXCEPT !.createDisk.MaxShares = Ptr(Get(rd, "max_shares"))] ELSE s1

\* lines 375-409
CreateIOPS(rd, st) ==
    LET storageAccountType == Get(rd, "storage_account_type")
        maxShares == Get(rd, "max_shares")
        s1 == IF HasChange(rd, "disk_iops_read_write")
              THEN [st EXCEPT !.createDisk.DiskIOPSReadWrite = Ptr(Get(rd, "disk_iops_read_write"))]
              ELSE st
        s2 == IF HasChange(rd, "disk_mbps_read_write")
              THEN [s1 EXCEPT !.createDisk.DiskMBpsReadWrite = Ptr(Get(rd, "disk_mbps_read_write"))]
              ELSE s1
        s3 == IF ~GetOk(rd, "disk_iops_read_only") THEN s2
              ELSE IF ~ReadOnlyAllowed(maxShares) THEN [s2 EXCEPT !.res = "error"]
              ELSE [s2 EXCEPT !.createDisk.DiskIOPSReadOnly = Ptr(Get(rd, "disk_iops_read_only"))]
        s4 == IF s3.res # "ok" \/ ~GetOk(rd, "disk_mbps_read_only") THEN s3
              ELSE IF ~ReadOnlyAllowed(maxShares) THEN [s3 EXCEPT !.res = "error"]
              ELSE [s3 EXCEPT !.createDisk.DiskMBpsReadOnly = Ptr(Get(rd, "disk_mbps_read_only"))]
        s5 == IF s4.res = "ok" /\ GetOk(rd, "logical_sector_size")
              THEN [s4 EXCEPT !.createDisk.LogicalSectorSize = Ptr(Get(rd, "logical_sector_size"))]
              ELSE s4
    IN IF st.res # "ok" THEN st
       ELSE IF storageAccountType = UltraSSDLRS \/ storageAccountType = PremiumVTwoLRS THEN s5
       ELSE IF HasChange(rd, "disk_iops_read_write") \/ HasChange(rd, "disk_mbps_read_write")
               \/ HasChange(rd, "disk_iops_read_only") \/ HasChange(rd, "disk_mbps_read_only")
               \/ HasChange(rd, "logical_sector_size")
            THEN [st EXCEPT !.res = "error"]
       ELSE st

\* lines 411-424
CreateImport(rd, st) ==
    LET createOption == Get(rd, "create_option")
        sourceUri == Get(rd, "source_uri")
        storageAccountId == Get(rd, "storage_account_id")
    IN IF st.res # "ok" \/ ~(createOption = "Import" \/ createOption = "ImportSecure") THEN st
       ELSE IF sourceUri = "" THEN [st EXCEPT !.res = "error"]
       ELSE IF storageAccountId = "" THEN [st EXCEPT !.res = "error"]
       ELSE [st EXCEPT !.createDisk.StorageAccountId = Ptr(storageAccountId),
                       !.createDisk.SourceUri = Ptr(sourceUri)]

\* a Copy or Restore that does not ask for its source
CreateCopy_Unchecked(rd, st) ==
    LET createOption == Get(rd, "create_option")
        sourceResourceId == Get(rd, "source_resource_id")
    IN IF st.res # "ok" \/ ~(createOption = "Copy" \/ createOption = "Restore") THEN st
       ELSE [st EXCEPT !.createDisk.SourceResourceId = Ptr(sourceResourceId)]

\* lines 425-432
CreateCopy(rd, st) ==
    LET createOption == Get(rd, "create_option")
        sourceResourceId == Get(rd, "source_resource_id")
    IN IF st.res # "ok" \/ ~(createOption = "Copy" \/ createOption = "Restore") THEN st
       ELSE IF sourceResourceId = "" THEN [st EXCEPT !.res = "error"]
       ELSE [st EXCEPT !.createDisk.SourceResourceId = Ptr(sourceResourceId)]

\* lines 433-445
CreateFromImage(rd, st) ==
    IF st.res # "ok" \/ Get(rd, "create_option") # "FromImage" THEN st
    ELSE IF Get(rd, "image_reference_id") # ""
         THEN [st EXCEPT !.createDisk.ImageReference = Ptr(Get(rd, "image_reference_id"))]
    ELSE IF Get(rd, "gallery_image_reference_id") # ""
         THEN [st EXCEPT !.createDisk.GalleryImageReference =
                             Ptr(Get(rd, "gallery_image_reference_id"))]
    ELSE [st EXCEPT !.res = "error"]

\* lines 447-453
CreateUpload(rd, st) ==
    IF st.res # "ok" \/ Get(rd, "create_option") # "Upload" THEN st
    ELSE IF Get(rd, "upload_size_bytes") # 0
         THEN [st EXCEPT !.createDisk.UploadSizeBytes = Ptr(Get(rd, "upload_size_bytes"))]
    ELSE [st EXCEPT !.res = "error"]

\* lines 455-469
CreateEncryption(rd, e, st) ==
    LET diskEncryptionSetId == Get(rd, "disk_encryption_set_id")
        s1 == IF GetOk(rd, "encryption_settings")
              THEN [st EXCEPT !.createDisk.EncryptionSettingsCollection =
                         Ptr(expandManagedDiskEncryptionSettings(Get(rd, "encryption_settings")))]
              ELSE st
    IN IF st.res # "ok" THEN st
       ELSE IF diskEncryptionSetId = "" THEN s1
       ELSE IF e.encryptionTypeError THEN [s1 EXCEPT !.res = "error"]
       ELSE [s1 EXCEPT !.createDisk.Encryption =
                           [Type |-> "EncryptionAtRestWithCustomerKey",
                            DiskEncryptionSetId |-> Ptr(diskEncryptionSetId)]]

\* lines 471-490
CreateNetworkAccess(rd, st) ==
    LET policy == Get(rd, "network_access_policy")
        diskAccessID == Get(rd, "disk_access_id")
        s1 == [st EXCEPT !.createDisk.NetworkAccessPolicy = Ptr(policy)]
        s2 == IF ~HasChange(rd, "disk_access_id") THEN s1
              ELSE IF policy = NetworkAccessPolicyAllowPrivate
                   THEN [s1 EXCEPT !.createDisk.DiskAccessId = Ptr(diskAccessID)]
              ELSE IF diskAccessID # "" /\ policy # NetworkAccessPolicyAllowPrivate
                   THEN [s1 EXCEPT !.res = "error"]
              ELSE [s1 EXCEPT !.createDisk.DiskAccessId = Nil]
    IN IF st.res # "ok" THEN st
       ELSE IF s2.res # "ok" THEN s2
       ELSE [s2 EXCEPT !.createDisk.PublicNetworkAccess =
                           IF Get(rd, "public_network_access_enabled")
                           THEN Ptr("Enabled") ELSE Ptr("Disabled")]

\* lines 492-497
CreateTier(rd, st) ==
    LET tier == Get(rd, "tier") IN
    IF st.res # "ok" \/ tier = "" THEN st
    ELSE IF ~TierAllowed(Get(rd, "storage_account_type")) THEN [st EXCEPT !.res = "error"]
    ELSE [st EXCEPT !.createDisk.Tier = Ptr(tier)]

SupportsSecurityProfile(createOption) == createOption \in {"FromImage", "Import", "ImportSecure"}

\* lines 499-544
CreateSecurity(rd, st) ==
    LET createOption == Get(rd, "create_option")
        trusted == Get(rd, "trusted_launch_enabled")
        securityType == Get(rd, "security_type")
        secureVMDiskEncryptionId == Get(rd, "secure_vm_disk_encryption_set_id")
        s1 == IF ~trusted THEN st
              ELSE IF ~SupportsSecurityProfile(createOption) THEN [st EXCEPT !.res = "error"]
              ELSE [st EXCEPT !.createDisk.SecurityProfile =
                        Ptr([SecurityType |-> "TrustedLaunch", SecureVMDiskEncryptionSetId |-> Nil])]
        s2 == IF s1.res # "ok" \/ securityType = "" THEN s1
              ELSE IF trusted THEN [s1 EXCEPT !.res = "error"]
              ELSE IF ~SupportsSecurityProfile(createOption) THEN [s1 EXCEPT !.res = "error"]
              ELSE IF securityType = SecurityTypeCustomerKey /\ secureVMDiskEncryptionId = ""
                   THEN [s1 EXCEPT !.res = "error"]
              ELSE [s1 EXCEPT !.createDisk.SecurityProfile =
                        Ptr([SecurityType |-> securityType, SecureVMDiskEncryptionSetId |-> Nil])]
    IN IF st.res # "ok" THEN st
       ELSE IF s2.res # "ok" \/ secureVMDiskEncryptionId = "" THEN s2
       ELSE IF securityType # SecurityTypeCustomerKey THEN [s2 EXCEPT !.res = "error"]
       ELSE IF s2.createDisk.SecurityProfile = Nil THEN [s2 EXCEPT !.res = "panic"]
       ELSE [s2 EXCEPT !.createDisk.SecurityProfile =
                           Ptr([@[1] EXCEPT !.SecureVMDiskEncryptionSetId =
                                                Ptr(secureVMDiskEncryptionId)])]

\* lines 546-559
CreateBursting(rd, st) ==
    IF st.res # "ok" \/ ~Get(rd, "on_demand_bursting_enabled") THEN st
    ELSE IF ~BurstingAllowed(Get(rd, "storage_account_type"), Get(rd, "disk_size_gb"))
         THEN [st EXCEPT !.res = "error"]
    ELSE [st EXCEPT !.createDisk.BurstingEnabled = Ptr(TRUE)]

\* lines 561-581
CreateGenerationAndZone(rd, st) ==
    LET s1 == IF GetOk(rd, "hyper_v_generation")
              THEN [st EXCEPT !.createDisk.HyperVGeneration = Ptr(Get(rd, "hyper_v_generation"))]
              ELSE st
    IN IF st.res # "ok" THEN st
       ELSE IF GetOk(rd, "zone") THEN [s1 EXCEPT !.createDisk.Zones = Ptr(<<Get(rd, "zone")>>)]
       ELSE s1

\* lines 344-581: the disk to create, or the error that ended the handler
BuildCreateDisk(rd, e) ==
    CreateGenerationAndZone(rd,
     CreateBursting(rd,
      CreateSecurity(rd,
       CreateTier(rd,
        CreateNetworkAccess(rd,
         CreateEncryption(rd, e,
          CreateUpload(rd,
           CreateFromImage(rd,
            CreateCopy(rd,
             CreateImport(rd,
              CreateIOPS(rd,
               CreateSizeAndShares(rd, CreateLocals(rd)))))))))))))

\* an existence check that lets an existing disk through
CheckExisting_ErrorsOnly(isNew, resp) ==
    IF ~isNew THEN "proceed"
    ELSE IF resp # "ok" /\ resp # "notfound" THEN "error"
    ELSE "proceed"

\* lines 331-342: what the Get for an existing disk lets Create do
CheckExisting(isNew, resp) ==
    IF ~isNew THEN "proceed"
    ELSE IF resp # "ok" /\ resp # "notfound" THEN "error"
    ELSE IF resp # "notfound" THEN "exists"
    ELSE "proceed"

\* the configurations that set exactly the keys ch; the attributes Create copies
\* without a branch (tags, os_type, edge_zone, performance_plus_enabled,
\* optimized_frequent_attach_enabled) stay at one value
ConfigsSetting(ch) ==
    [changed : {ch},
     new : [storage_account_type : ConfigStorageAccountTypes,
            create_option : CreateOptions,
            tags : {"t1"}, os_type : {"Linux"}, edge_zone : {""},
            performance_plus_enabled : {FALSE},
            optimized_frequent_attach_enabled : {FALSE},
            max_shares : When("max_shares" \in ch, {2}, 0),
            disk_size_gb : When("disk_size_gb" \in ch, DiskSizes \ {0}, 0),
            disk_iops_read_write : When("disk_iops_read_write" \in ch, {500}, 0),
            disk_mbps_read_write : When("disk_mbps_read_write" \in ch, {500}, 0),
            disk_iops_read_only : When("disk_iops_read_only" \in ch, {500}, 0),
            disk_mbps_read_only : When("disk_mbps_read_only" \in ch, {500}, 0),
            logical_sector_size : When("logical_sector_size" \in ch, {4096}, 0),
            source_uri : When("source_uri" \in ch, {"https://vhd"}, ""),
            storage_account_id : When("storage_account_id" \in ch, {"sa1"}, ""),
            source_resource_id : When("source_resource_id" \in ch, {"snap1"}, ""),
            image_reference_id : When("image_reference_id" \in ch, {"img1"}, ""),
            gallery_image_reference_id :
                When("gallery_image_reference_id" \in ch, {"gallery1"}, ""),
            upload_size_bytes : When("upload_size_bytes" \in ch, {1024}, 0),
            encryption_settings : When("encryption_settings" \in ch, {<<"A">>}, <<>>),
            disk_encryption_set_id : When("disk_encryption_set_id" \in ch, {"des1"}, ""),
            network_access_policy :
                When("network_access_policy" \in ch,
                     {NetworkAccessPolicyAllowPrivate, NetworkAccessPolicyDenyAll},
                     NetworkAccessPolicyAllowAll),
            disk_access_id : When("disk_access_id" \in ch, {"da1"}, ""),
            public_network_access_enabled :
                When("public_network_access_enabled" \in ch, {FALSE}, TRUE),
            tier : When("tier" \in ch, Tiers, ""),
            trusted_launch_enabled : When("trusted_launch_enabled" \in ch, {TRUE}, FALSE),
            security_type :
                When("security_type" \in ch,
                     {SecurityTypeCustomerKey, SecurityTypePlatformKey}, ""),
            secure_vm_disk_encryption_set_id :
                When("secure_vm_disk_encryption_set_id" \in ch, {"des2"}, ""),
            on_demand_bursting_enabled :
                When("on_demand_bursting_enabled" \in ch, {TRUE}, FALSE),
            hyper_v_generation : When("hyper_v_generation" \in ch, {"V2"}, ""),
            zone : When("zone" \in ch, {"1"}, "")]]

CreateConfigs ==
    UNION {ConfigsSetting(ch) :
             ch \in {s \in SUBSET CreateKeys :
                       /\ Cardinality(s) <= MaxChanged
                       /\ \A c \in ConflictsWith : ~(c \subseteq s)}}

\* the answers Create can get while it builds the payload for configuration rd
CreateEnvs(rd) ==
    {[NoEnv EXCEPT !.encryptionTypeError = b] :
        b \in When(Get(rd, "disk_encryption_set_id") # "", BOOLEAN, FALSE)}

(***************************************************************************)
(* The state machine                                                       *)
(***************************************************************************)
\* a call the running handler has made, with its argument and what it returned
Event(call, arg, ret) == [call |-> call, arg |-> arg, ret |-> ret]

NoPlan == [changed |-> {}]

\* the concurrent Update invocations, and one that has not been called
Procs == 1..NumUpdates

IdleUpdate == [pc |-> "idle", ManagedBy |-> Nil, shouldShutDown |-> FALSE]

Init ==
    /\ id \in {"", DiskId}
    /\ op = "none"
    /\ pc = "idle"
    /\ d = NoPlan
    /\ env = NoEnv
    /\ disk = [err |-> "none", Model |-> Nil]
    /\ payload = Nil
    /\ shouldShutDown = FALSE
    /\ shouldDetach = FALSE
    /\ locks = {}
    /\ trace = <<>>
    /\ sent = Nil
    /\ result = "none"
    /\ written = {}
    /\ updates = [p \in Procs |-> IdleUpdate]

\* Update, lines 619-631: ParseManagedDiskID and the Get; an error of either
\* ends the handler
UpdateStart ==
    /\ pc = "idle"
    /\ id # ""
    /\ op' = "update"
    /\ IF ParseManagedDiskID(id) # "ok"
       THEN /\ result' = "error"
            /\ pc' = "done"
            /\ UNCHANGED <<disk, trace>>
       ELSE \E resp \in UpdateGetResponses :
            /\ disk' = resp
            /\ trace' = <<Event("Get", id, resp.err)>>
            /\ result' = IF resp.err # "none" THEN "error" ELSE "none"
            /\ pc' = IF resp.err # "none" THEN "done" ELSE "build"
    /\ UNCHANGED <<id, d, env, payload, shouldShutDown, shouldDetach, locks, sent, written>>
    /\ UNCHANGED updates

\* Update, lines 633-818, under a plan that does not replace the resource: the
\* payload is built from the plan, and the handler returns an error or goes on
\* to one of the two update paths
UpdateBuild ==
    /\ pc = "build"
    /\ \E rd \in UpdatePlans :
         /\ ~RequiresNew(rd)
         /\ \E e \in UpdateEnvs(rd) :
              LET st == BuildDiskUpdate(rd, e)
                  u == ChoosePath(disk, st)
              IN
              \* Update looks into disk.Model only when the payload is built and
              \* shouldShutDown is set: a response that differs from a well-formed
              \* one only there is not followed otherwise
              /\ (st.res = "ok" /\ st.shouldShutDown) \/ disk \in WellFormedModels
              /\ d' = rd
              /\ env' = e
              /\ payload' = Ptr(st.diskUpdate)
              /\ shouldShutDown' = u.shouldShutDown
              /\ shouldDetach' = st.shouldDetach
              /\ trace' = IF u.parsed
                          THEN Append(trace, Event("ParseVirtualMachineID",
                                                   disk.Model[1].ManagedBy[1],
                                                   IF u.vmErr THEN "error" ELSE "ok"))
                          ELSE trace
              /\ result' = IF u.next = "return" THEN u.res ELSE "none"
              /\ pc' = IF u.next = "return" THEN "done" ELSE u.next
    /\ UNCHANGED <<id, op, disk, locks, sent, written>>
    /\ UNCHANGED updates

\* the VM the disk is attached to, once ParseVirtualMachineID has accepted it
VirtualMachineName == ParseVirtualMachineID(disk.Model[1].ManagedBy[1]).VirtualMachineName

\* locks.ByName(virtualMachineId.VirtualMachineName, VirtualMachineResourceName)
UpdateLock ==
    /\ pc = "lock"
    /\ VirtualMachineName \notin locks
    /\ locks' = locks \cup {VirtualMachineName}
    /\ trace' = Append(trace, Event("locks.ByName", VirtualMachineName, "ok"))
    /\ pc' = "shutdown"
    /\ UNCHANGED <<id, op, d, env, disk, payload, shouldShutDown, shouldDetach, sent,
                   result, written>>
    /\ UNCHANGED updates

\* resourceManagedDiskUpdateWithVmShutDown(ctx, client, id, virtualMachineId,
\* diskUpdate, shouldDetach), which returns an error or nil
UpdateWithVmShutDown ==
    /\ pc = "shutdown"
    /\ sent' = Ptr([via |-> "resourceManagedDiskUpdateWithVmShutDown", body |-> payload[1]])
    /\ \E err \in BOOLEAN :
         /\ trace' = Append(trace, Event("resourceManagedDiskUpdateWithVmShutDown",
                                         VirtualMachineName, IF err THEN "error" ELSE "ok"))
         /\ result' = IF err THEN "error" ELSE result
         /\ pc' = IF err THEN "unlock" ELSE "read"
    /\ UNCHANGED <<id, op, d, env, disk, payload, shouldShutDown, shouldDetach, locks, written>>
    /\ UNCHANGED updates

\* client.UpdateThenPoll(ctx, *id, diskUpdate)
UpdateThenPoll ==
    /\ pc = "update"
    /\ sent' = Ptr([via |-> "UpdateThenPoll", body |-> payload[1]])
    /\ \E err \in BOOLEAN :
         /\ trace' = Append(trace, Event("UpdateThenPoll", id, IF err THEN "error" ELSE "ok"))
         /\ result' = IF err THEN "error" ELSE result
         /\ pc' = IF err THEN "done" ELSE "read"
    /\ UNCHANGED <<id, op, d, env, disk, payload, shouldShutDown, shouldDetach, locks, written>>
    /\ UNCHANGED updates

\* defer locks.UnlockByName(...): runs when Update returns, after the final Read
UpdateUnlock ==
    /\ pc = "unlock"
    /\ locks' = locks \ {VirtualMachineName}
    /\ trace' = Append(trace, Event("locks.UnlockByName", VirtualMachineName, "ok"))
    /\ pc' = "done"
    /\ UNCHANGED <<id, op, d, env, disk, payload, shouldShutDown, shouldDetach, sent,
                   result, written>>
    /\ UNCHANGED updates

\* Create, lines 330-342: the framework has marked the resource as new; the Get
\* for a disk with the computed ID answers "notfound", "ok" (the disk exists) or
\* "other" (another error)
CreateStart ==
    /\ pc = "idle"
    /\ id = ""
    /\ op' = "create"
    /\ \E resp \in {"notfound", "ok", "other"} :
         LET c == CheckExisting(TRUE, resp) IN
         /\ trace' = <<Event("Get", DiskId, resp)>>
         /\ result' = IF c = "proceed" THEN "none"
                      ELSE IF c = "exists" THEN "import_as_exists" ELSE "error"
         /\ pc' = IF c = "proceed" THEN "cbuild" ELSE "done"
    /\ UNCHANGED <<id, d, env, disk, payload, shouldShutDown, shouldDetach, locks, sent, written>>
    /\ UNCHANGED updates

\* Create, lines 344-581: the disk is built from the configuration, or the
\* handler returns an error
CreateBuild ==
    /\ pc = "cbuild"
    /\ \E rd \in CreateConfigs :
         \E e \in CreateEnvs(rd) :
            LET st == BuildCreateDisk(rd, e) IN
            /\ d' = rd
            /\ env' = e
            /\ payload' = Ptr(st.createDisk)
            /\ result' = IF st.res = "ok" THEN "none" ELSE st.res
            /\ pc' = IF st.res = "ok" THEN "createOrUpdate" ELSE "done"
    /\ UNCHANGED <<id, op, disk, shouldShutDown, shouldDetach, locks, trace, sent, written>>
    /\ UNCHANGED updates

\* client.CreateOrUpdateThenPoll(ctx, id, createDisk): returns when the remote
\* operation has completed or failed
CreateOrUpdateThenPoll ==
    /\ pc = "createOrUpdate"
    /\ sent' = Ptr([via |-> "CreateOrUpdateThenPoll", body |-> payload[1]])
    /\ \E err \in BOOLEAN :
         /\ trace' = Append(trace, Event("CreateOrUpdateThenPoll", DiskId,
                                         IF err THEN "error" ELSE "ok"))
         /\ result' = IF err THEN "error" ELSE result
         /\ pc' = IF err THEN "done" ELSE "get"
    /\ UNCHANGED <<id, op, d, env, disk, payload, shouldShutDown, shouldDetach, locks, written>>
    /\ UNCHANGED updates

\* a Get after the create whose missing model goes unnoticed
ReadBack_AnyModel(resp) == ~(resp = "other")

\* lines 589-594: Create goes on when the Get returned no error and a model
ReadBack(resp) == ~(resp = "other") /\ ~(resp = "nil")

\* lines 588-594: the Get after the create answers an error ("other"), no model
\* ("nil"), or a model ("ok"); createDisk is not used after the create
CreateGet ==
    /\ pc = "get"
    /\ \E resp \in {"other", "nil", "ok"} :
         /\ trace' = Append(trace, Event("Get", DiskId, resp))
         /\ result' = IF ReadBack(resp) THEN result ELSE "error"
         /\ pc' = IF ReadBack(resp) THEN "setid" ELSE "done"
    /\ d' = NoPlan
    /\ env' = NoEnv
    /\ payload' = Nil
    /\ sent' = Nil
    /\ UNCHANGED <<id, op, disk, shouldShutDown, shouldDetach, locks, written>>
    /\ UNCHANGED updates

\* d.SetId(id.ID())
CreateSetId ==
    /\ pc = "setid"
    /\ id' = DiskId
    /\ trace' = Append(trace, Event("SetId", DiskId, "ok"))
    /\ pc' = "read"
    /\ UNCHANGED <<op, d, env, disk, payload, shouldShutDown, shouldDetach, locks, sent,
                   result, written>>
    /\ UNCHANGED updates

\* the framework destroys the resource, or replaces it because the plan requires
\* a new one: Delete runs, and Create follows once the resource has left state
DeleteStart ==
    /\ pc = "idle"
    /\ id # ""
    /\ \/ /\ op' = "delete"
          /\ d' = d
       \/ /\ op' = "replace"
          /\ \E rd \in UpdatePlans : RequiresNew(rd) /\ d' = rd
    /\ pc' = "delete"
    /\ UNCHANGED <<id, env, disk, payload, shouldShutDown, shouldDetach, locks, trace, sent,
                   result, written>>
    /\ UNCHANGED updates

\* resourceManagedDiskDelete: ParseManagedDiskID, then client.DeleteThenPoll; the
\* framework removes the resource from state when Delete returns nil
DeleteThenPoll ==
    /\ pc = "delete"
    /\ IF ParseManagedDiskID(id) # "ok"
       THEN /\ result' = "error"
            /\ UNCHANGED <<id, trace>>
       ELSE /\ \E err \in BOOLEAN :
                 /\ trace' = Append(trace, Event("DeleteThenPoll", id, IF err THEN "error" ELSE "ok"))
                 /\ result' = IF err THEN "error" ELSE "ok"
                 /\ id' = IF err THEN id ELSE ""
    /\ pc' = "done"
    /\ d' = NoPlan
    /\ UNCHANGED <<op, env, disk, payload, shouldShutDown, shouldDetach, locks, sent, written>>
    /\ UNCHANGED updates

\* Read as the framework calls it on a resource that is in state
ReadStart ==
    /\ pc = "idle"
    /\ id # ""
    /\ op' = "read"
    /\ pc' = "read"
    /\ UNCHANGED <<id, d, env, disk, payload, shouldShutDown, shouldDetach, locks, trace,
                   sent, result, written>>
    /\ UNCHANGED updates

\* resourceManagedDiskRead(d, meta), called by the framework or as the last
\* statement of Create and Update.  It is the caller's tail call: the caller's
\* locals are dead when it runs (only the deferred unlock is left), and it
\* replaces the attributes of d by what the API returned.
Read ==
    /\ pc = "read"
    /\ \E resp \in ReadResponses :
         LET r == resourceManagedDiskRead(id, resp) IN
         /\ id' = r.id
         /\ result' = r.res
         /\ written' = r.written
         /\ trace' = trace \o <<Event("resourceManagedDiskRead", id, r.res)>>
                            \o (IF r.got THEN <<Event("Get", id, resp.err)>> ELSE <<>>)
    /\ pc' = IF op = "update" /\ shouldShutDown THEN "unlock" ELSE "done"
    /\ d' = NoPlan
    /\ env' = NoEnv
    /\ payload' = Nil
    /\ shouldDetach' = FALSE
    /\ sent' = Nil
    /\ UNCHANGED <<op, disk, shouldShutDown, locks>>
    /\ UNCHANGED updates

\* the handler has returned: the framework keeps the resource ID and nothing else
Return ==
    /\ pc = "done"
    /\ op' = "none"
    /\ pc' = "idle"
    /\ d' = NoPlan
    /\ env' = NoEnv
    /\ disk' = [err |-> "none", Model |-> Nil]
    /\ payload' = Nil
    /\ shouldShutDown' = FALSE
    /\ shouldDetach' = FALSE
    /\ trace' = <<>>
    /\ sent' = Nil
    /\ result' = "none"
    /\ written' = {}
    /\ UNCHANGED <<id, locks>>
    /\ UNCHANGED updates

Next ==
    \/ UpdateStart
    \/ UpdateBuild
    \/ UpdateLock
    \/ UpdateWithVmShutDown
    \/ UpdateThenPoll
    \/ UpdateUnlock
    \/ CreateStart
    \/ CreateBuild
    \/ CreateOrUpdateThenPoll
    \/ CreateGet
    \/ CreateSetId
    \/ DeleteStart
    \/ DeleteThenPoll
    \/ ReadStart
    \/ Read
    \/ Return

Spec == Init /\ [][Next]_vars

(***************************************************************************)
(* Concurrent Update invocations                                           *)
(*                                                                         *)
(* The provider runs resourceManagedDiskUpdate for several disks at once.  *)
(* Each invocation has its own locals; they share the lock table of        *)
(* internal/locks, which hands a name to one holder at a time.             *)
(***************************************************************************)
\* what lines 633-806 can leave Update with when it reaches line 808, under any
\* plan and any answers: the error that ended it, or the flag
BuiltFlags ==
    UNION {{[res |-> BuildDiskUpdate(rd, e).res,
             shouldShutDown |-> BuildDiskUpdate(rd, e).shouldShutDown] : e \in UpdateEnvs(rd)} :
             rd \in {r \in UpdatePlans : ~RequiresNew(r)}}

\* the disk an invocation updates
DiskIdOf(p) == "/disks/disk" \o ToString(p)

\* virtualMachineId.VirtualMachineName of line 815
VirtualMachineNameOf(p) == ParseVirtualMachineID(updates[p].ManagedBy[1]).VirtualMachineName

\* a lock keyed by the disk instead of the VM
LockName_ByDisk(p) == DiskIdOf(p)

\* lines 821-822: the name under which the lock is taken and released
LockName(p) == VirtualMachineNameOf(p)

\* locks.ByName returns once no other caller holds the name
LockFree(name) == name \notin locks

\* lines 601-818 of one invocation: the Get has answered with a disk that is
\* detached or attached to one of two VMs, and the invocation returns an error
\* or goes on to one of the two update paths
ConcurrentUpdateStart(p) ==
    /\ updates[p].pc = "idle"
    /\ \E m \in {Nil, Ptr(VmId), Ptr(OtherVmId)} :
         \E st \in BuiltFlags :
            LET u == ChoosePath([err |-> "none", Model |-> Ptr([ManagedBy |-> m])], st) IN
            updates' = [updates EXCEPT ![p] =
                           [pc |-> IF u.next = "return" THEN "done" ELSE u.next,
                            ManagedBy |-> m,
                            shouldShutDown |-> u.shouldShutDown]]
    /\ UNCHANGED <<id, op, pc, d, env, disk, payload, shouldShutDown, shouldDetach,
                   locks, trace, sent, result, written>>

\* line 821: locks.ByName blocks while another invocation holds the name
ConcurrentLock(p) ==
    /\ updates[p].pc = "lock"
    /\ LockFree(LockName(p))
    /\ locks' = locks \cup {LockName(p)}
    /\ updates' = [updates EXCEPT ![p].pc = "shutdown"]
    /\ UNCHANGED <<id, op, pc, d, env, disk, payload, shouldShutDown, shouldDetach,
                   trace, sent, result, written>>

\* line 824: the invocation enters resourceManagedDiskUpdateWithVmShutDown
ConcurrentHelperCall(p) ==
    /\ updates[p].pc = "shutdown"
    /\ updates' = [updates EXCEPT ![p].pc = "helper"]
    /\ UNCHANGED <<id, op, pc, d, env, disk, payload, shouldShutDown, shouldDetach,
                   locks, trace, sent, result, written>>

\* lines 824-827: the helper returns an error or nil
ConcurrentHelperReturn(p) ==
    /\ updates[p].pc = "helper"
    /\ \E err \in BOOLEAN :
         updates' = [updates EXCEPT ![p].pc = IF err THEN "unlock" ELSE "read"]
    /\ UNCHANGED <<id, op, pc, d, env, disk, payload, shouldShutDown, shouldDetach,
                   locks, trace, sent, result, written>>

\* lines 829-832: client.UpdateThenPoll returns an error or nil
ConcurrentUpdateThenPoll(p) ==
    /\ updates[p].pc = "update"
    /\ \E err \in BOOLEAN :
         updates' = [updates EXCEPT ![p].pc = IF err THEN "done" ELSE "read"]
    /\ UNCHANGED <<id, op, pc, d, env, disk, payload, shouldShutDown, shouldDetach,
                   locks, trace, sent, result, written>>

\* line 835: the final Read; the deferred unlock is what is left to run
ConcurrentRead(p) ==
    /\ updates[p].pc = "read"
    /\ updates' = [updates EXCEPT ![p].pc = IF updates[p].shouldShutDown THEN "unlock" ELSE "done"]
    /\ UNCHANGED <<id, op, pc, d, env, disk, payload, shouldShutDown, shouldDetach,
                   locks, trace, sent, result, written>>

\* line 822: the deferred locks.UnlockByName
ConcurrentUnlock(p) ==
    /\ updates[p].pc = "unlock"
    /\ locks' = locks \ {LockName(p)}
    /\ updates' = [updates EXCEPT ![p].pc = "done"]
    /\ UNCHANGED <<id, op, pc, d, env, disk, payload, shouldShutDown, shouldDetach,
                   trace, sent, result, written>>

\* the invocation has returned
ConcurrentReturn(p) ==
    /\ updates[p].pc = "done"
    /\ updates' = [updates EXCEPT ![p] = IdleUpdate]
    /\ UNCHANGED <<id, op, pc, d, env, disk, payload, shouldShutDown, shouldDetach,
                   locks, trace, sent, result, written>>

\* every disk is in state
ConcurrentInit == Init /\ id = DiskId

ConcurrentNext ==
    \E p \in Procs :
        \/ ConcurrentUpdateStart(p)
        \/ ConcurrentLock(p)
        \/ ConcurrentHelperCall(p)
        \/ ConcurrentHelperReturn(p)
        \/ ConcurrentUpdateThenPoll(p)
        \/ ConcurrentRead(p)
        \/ ConcurrentUnlock(p)
        \/ ConcurrentReturn(p)

ConcurrentSpec == ConcurrentInit /\ [][ConcurrentNext]_vars

(***************************************************************************)
(* Reading the state of a running handler                                  *)
(***************************************************************************)
\* the calls the running handler has made, in order
Calls == [i \in 1..Len(trace) |-> trace[i].call]

IsPrefix(s, t) == Len(s) <= Len(t) /\ \A i \in 1..Len(s) : s[i] = t[i]

Called(call) == \E i \in 1..Len(trace) : trace[i].call = call

Count(call) == Cardinality({i \in 1..Len(trace) : trace[i].call = call})

\* the calls that send a payload to the Disks API
WriteCalls ==
    {"CreateOrUpdateThenPoll", "UpdateThenPoll", "resourceManagedDiskUpdateWithVmShutDown"}

NothingWritten == sent = Nil /\ \A i \in 1..Len(trace) : trace[i].call \notin WriteCalls

\* the handler has built its payload without an error and is about to send it
PayloadComplete == pc \in {"createOrUpdate", "lock", "shutdown", "update"}

\* Update has built diskUpdate without an error, so that it has reached line 808
UpdateBuilt ==
    \/ d # NoPlan /\ BuildDiskUpdate(d, env).res = "ok"
    \/ Called("resourceManagedDiskRead")

Detached == disk.err = "none" /\ disk.Model # Nil /\ disk.Model[1].ManagedBy = Nil

Attached == disk.err = "none" /\ disk.Model # Nil /\ disk.Model[1].ManagedBy # Nil

(***************************************************************************)
(* C1                                                                      *)
(***************************************************************************)
ShutDownCalls ==
    <<"Get", "ParseVirtualMachineID", "locks.ByName",
      "resourceManagedDiskUpdateWithVmShutDown", "locks.UnlockByName">>

ShutDownCallsThenRead ==
    <<"Get", "ParseVirtualMachineID", "locks.ByName",
      "resourceManagedDiskUpdateWithVmShutDown", "resourceManagedDiskRead", "Get",
      "locks.UnlockByName">>

\* Update has reached line 814 with shouldShutDown set
DecidedShutDown == op = "update" /\ shouldShutDown /\ Called("ParseVirtualMachineID")

\* the lock of the attached VM is taken, then the helper gets the built
\* diskUpdate under the lock, then the lock is released, and the handler does not
\* return before; UpdateThenPoll is not called
LockHelperUnlock ==
    /\ IsPrefix(Calls, ShutDownCalls) \/ IsPrefix(Calls, ShutDownCallsThenRead)
    /\ \A i \in 1..Len(trace) :
         trace[i].call \in {"locks.ByName", "resourceManagedDiskUpdateWithVmShutDown",
                            "locks.UnlockByName"}
            => trace[i].arg = VirtualMachineName
    /\ pc = "shutdown" => VirtualMachineName \in locks
    /\ locks = IF Called("locks.ByName") /\ ~Called("locks.UnlockByName")
               THEN {VirtualMachineName} ELSE {}
    /\ sent # Nil => /\ sent[1].via = "resourceManagedDiskUpdateWithVmShutDown"
                     /\ sent[1].body = BuildDiskUpdate(d, env).diskUpdate
    /\ ~Called("UpdateThenPoll")
    /\ pc = "done" => Calls \in {ShutDownCalls, ShutDownCallsThenRead}

\* C1 as the spec states it: whenever Update has decided on a VM shutdown
\* (shouldShutDown still set after the attachment check), the lock of the
\* attached VM is acquired, then the helper is invoked with the built diskUpdate,
\* then the lock is released; the helper never runs without the lock and
\* UpdateThenPoll is not called on that path.
C1_AlwaysLockHelperUnlock == DecidedShutDown => LockHelperUnlock

\* C1, amended: the same order of lock, helper and unlock whenever Update has
\* decided on a VM shutdown and ParseVirtualMachineID has accepted ManagedBy;
\* when it has not, Update returns its error with no lock taken and no call made.
C1_LockHelperUnlock ==
    DecidedShutDown =>
        IF trace[2].ret = "ok"
        THEN LockHelperUnlock
        ELSE /\ Calls = <<"Get", "ParseVirtualMachineID">>
             /\ pc = "done" /\ result = "error"
             /\ locks = {} /\ NothingWritten

C1_Witness ==
    /\ DecidedShutDown
    /\ pc = "done"
    /\ Calls = ShutDownCallsThenRead
    /\ locks = {}

(***************************************************************************)
(* C2                                                                      *)
(***************************************************************************)
\* a read-only limit that Create finds set, or that Update finds changed, on an
\* UltraSSD_LRS or PremiumV2_LRS disk whose max_shares is not greater than 0
ReadOnlyLimitWithoutShares ==
    /\ d # NoPlan
    /\ Get(d, "storage_account_type") \in {UltraSSDLRS, PremiumVTwoLRS}
    /\ ~(Get(d, "max_shares") > 0)
    /\ \E key \in {"disk_iops_read_only", "disk_mbps_read_only"} :
          \/ op = "create" /\ GetOk(d, key)
          \/ op = "update" /\ HasChange(d, key)

\* C2: for an UltraSSD_LRS or PremiumV2_LRS disk, Create with disk_iops_read_only
\* or disk_mbps_read_only set, and Update with either of them changed, returns an
\* error when max_shares is not greater than 0, and makes no API write call.
C2_ReadOnlyLimitsNeedMaxShares ==
    ReadOnlyLimitWithoutShares =>
        /\ pc = "done"
        /\ result = "error"
        /\ NothingWritten

C2_Witness ==
    /\ ReadOnlyLimitWithoutShares
    /\ op = "update"
    /\ HasChange(d, "disk_mbps_read_only")
    /\ Get(d, "storage_account_type") = PremiumVTwoLRS
    /\ result = "error"

(***************************************************************************)
(* C3                                                                      *)
(***************************************************************************)
\* Create with a non-empty tier, or Update with a changed tier
TierGiven ==
    /\ d # NoPlan
    /\ \/ op = "create" /\ Get(d, "tier") # ""
       \/ op = "update" /\ HasChange(d, "tier")

\* C3: Create with a non-empty tier and Update with a changed tier return an
\* error whenever storage_account_type is neither Premium_LRS nor Premium_ZRS,
\* and then nothing, so no tier, is sent to the API; when it is one of the two,
\* the payload that is sent carries the tier value unchanged.
C3_TierNeedsPremium ==
    TierGiven =>
        IF Get(d, "storage_account_type") \notin {PremiumLRS, PremiumZRS}
        THEN /\ pc = "done"
             /\ result = "error"
             /\ NothingWritten
             /\ payload[1].Tier = Nil
        ELSE /\ PayloadComplete => payload[1].Tier = Ptr(Get(d, "tier"))
             /\ sent # Nil => sent[1].body.Tier = Ptr(Get(d, "tier"))

C3_Witness ==
    /\ TierGiven
    /\ op = "create"
    /\ Get(d, "storage_account_type") = StandardLRS
    /\ result = "error"
    /\ pc = "done"

(***************************************************************************)
(* C4                                                                      *)
(***************************************************************************)
\* C4: a change of encryption_settings replaces the resource exactly when the
\* old value is non-empty and the new value is empty; under every other change
\* of it Update runs, and the diskUpdate it sends carries the new settings,
\* expanded, in EncryptionSettingsCollection.
C4_EncryptionSettingsForceNew ==
    /\ (op = "replace" /\ d # NoPlan /\ d.changed \cap StaticForceNewKeys = {}) =>
           /\ HasChange(d, "encryption_settings")
           /\ Len(d.old["encryption_settings"]) > 0
           /\ Len(Get(d, "encryption_settings")) = 0
    /\ (op = "update" /\ d # NoPlan /\ HasChange(d, "encryption_settings")) =>
           /\ ~(Len(d.old["encryption_settings"]) > 0 /\ Len(Get(d, "encryption_settings")) = 0)
           /\ PayloadComplete =>
                  payload[1].EncryptionSettingsCollection =
                      Ptr(expandManagedDiskEncryptionSettings(Get(d, "encryption_settings")))
           /\ sent # Nil =>
                  sent[1].body.EncryptionSettingsCollection =
                      Ptr(expandManagedDiskEncryptionSettings(Get(d, "encryption_settings")))

C4_Witness ==
    /\ op = "replace"
    /\ pc = "delete"
    /\ d # NoPlan
    /\ d.changed = {"encryption_settings"}
    /\ d.old["encryption_settings"] = <<"A">>
    /\ Get(d, "encryption_settings") = <<>>

(***************************************************************************)
(* C5                                                                      *)
(***************************************************************************)
\* C5: when Create runs on a new resource and the Get for the computed ID
\* returns anything but not-found, Create returns an error (import-as-exists
\* when the disk exists), never calls CreateOrUpdateThenPoll and never sets the
\* resource ID.
C5_ExistingDiskIsNotCreated ==
    (op = "create" /\ trace # <<>> /\ trace[1].ret # "notfound") =>
        /\ pc = "done"
        /\ result = IF trace[1].ret = "ok" THEN "import_as_exists" ELSE "error"
        /\ Calls = <<"Get">>
        /\ sent = Nil
        /\ id = ""

C5_Witness ==
    /\ op = "create"
    /\ Calls = <<"Get">>
    /\ trace[1].ret = "ok"
    /\ result = "import_as_exists"

(***************************************************************************)
(* C6                                                                      *)
(***************************************************************************)
\* C6: when the Get of Read reports not-found, Read sets the resource ID to the
\* empty string, returns nil and sets no other attribute; when the Get fails
\* otherwise, Read returns an error and leaves the resource ID as it was.
C6_ReadOfVanishedDisk ==
    \A i \in 1..Len(trace) :
        (trace[i].call = "resourceManagedDiskRead" /\ i < Len(trace)) =>
            /\ trace[i + 1].ret = "notfound" =>
                   /\ id = ""
                   /\ trace[i].ret = "ok" /\ result = "ok"
                   /\ written = {}
            /\ trace[i + 1].ret = "other" =>
                   /\ trace[i].ret = "error" /\ result = "error"
                   /\ id = trace[i].arg

C6_Witness ==
    /\ op = "read"
    /\ pc = "done"
    /\ Calls = <<"resourceManagedDiskRead", "Get">>
    /\ trace[2].ret = "notfound"
    /\ trace[1].arg = DiskId
    /\ id = ""

(***************************************************************************)
(* C7                                                                      *)
(***************************************************************************)
\* where payload p carries a DiskSizeGB, the size has changed, the new size is
\* greater than the old one, and it is the new size
SizeOnlyWhenGrown(p) ==
    p.DiskSizeGB # Nil =>
        /\ HasChange(d, "disk_size_gb")
        /\ Get(d, "disk_size_gb") > d.old["disk_size_gb"]
        /\ p.DiskSizeGB = Ptr(Get(d, "disk_size_gb"))

\* C7: Update with a changed disk_size_gb whose new value is not greater than the
\* old one returns an error and sends no update; DiskSizeGB is in the update
\* payload only when the new size is strictly greater than the old size, and it
\* then equals the new size.
C7_NoShrinking ==
    (op = "update" /\ d # NoPlan) =>
        /\ (HasChange(d, "disk_size_gb") /\ ~(Get(d, "disk_size_gb") > d.old["disk_size_gb"])) =>
               /\ pc = "done"
               /\ result = "error"
               /\ NothingWritten
        /\ SizeOnlyWhenGrown(payload[1])
        /\ sent # Nil => SizeOnlyWhenGrown(sent[1].body)
        /\ (PayloadComplete /\ HasChange(d, "disk_size_gb")) =>
               payload[1].DiskSizeGB = Ptr(Get(d, "disk_size_gb"))

C7_Witness ==
    /\ op = "update"
    /\ d # NoPlan
    /\ HasChange(d, "disk_size_gb")
    /\ Get(d, "disk_size_gb") < d.old["disk_size_gb"]
    /\ result = "error"
    /\ pc = "done"

(***************************************************************************)
(* C8                                                                      *)
(***************************************************************************)
\* the Get of the existence check, then the four steps, the last with its Get
CreateCalls ==
    <<"Get", "CreateOrUpdateThenPoll", "Get", "SetId", "resourceManagedDiskRead", "Get">>

\* CreateOrUpdateThenPoll, or the Get after it, has failed
CreateFailed ==
    \/ Len(trace) >= 2 /\ trace[2].ret = "error"
    \/ Len(trace) >= 3 /\ trace[3].ret \in {"other", "nil"}

\* C8: after validation Create calls CreateOrUpdateThenPoll, then Get, then
\* SetId, then Read, in this order; the resource ID is set only when
\* CreateOrUpdateThenPoll and the Get have both succeeded with a non-nil model,
\* and when either fails Create returns an error with the ID unset.
C8_CreateOrder ==
    op = "create" =>
        /\ IsPrefix(Calls, CreateCalls)
        /\ Called("SetId") => trace[2].ret = "ok" /\ trace[3].ret = "ok"
        /\ id # "" => Called("SetId") /\ id = DiskId
        /\ CreateFailed =>
               /\ pc = "done"
               /\ result = "error"
               /\ id = ""
               /\ ~Called("SetId") /\ ~Called("resourceManagedDiskRead")
        /\ (pc = "done" /\ Len(trace) >= 3 /\ ~CreateFailed) => Calls = CreateCalls
        /\ (pc = "done" /\ result = "ok") => Calls = CreateCalls

C8_Witness ==
    /\ op = "create"
    /\ pc = "done"
    /\ Calls = CreateCalls
    /\ id = DiskId
    /\ result = "ok"

RequiresShutDown(rd, e) ==
    \/ HasChange(rd, "tier")
    \/ HasChange(rd, "storage_account_type")
    \/ HasChange(rd, "disk_encryption_set_id")
    \/ HasChange(rd, "on_demand_bursting_enabled")
    \/ /\ HasChange(rd, "disk_size_gb")
       /\ Get(rd, "disk_size_gb") > rd.old["disk_size_gb"]
       /\ ~(/\ e.ExpandWithoutDowntime
            /\ e.vmSupportsNoDowntimeResize = "true"
            /\ e.diskSupportsNoDowntimeResize)

\* C10: for an Update of an attached disk that passes validation, the shutdown
\* path is taken exactly when tier, storage_account_type, disk_encryption_set_id
\* or on_demand_bursting_enabled has changed, or disk_size_gb has grown and the
\* disk cannot be resized without downtime; an Update that changes only other
\* attributes goes to UpdateThenPoll.
C10_ShutDownExactlyWhenRequired ==
    (op = "update" /\ Attached /\ d # NoPlan /\ BuildDiskUpdate(d, env).res = "ok") =>
        IF RequiresShutDown(d, env)
        THEN /\ Called("ParseVirtualMachineID")
             /\ shouldShutDown
             /\ ~(pc = "update") /\ ~Called("UpdateThenPoll")
        ELSE /\ ~Called("ParseVirtualMachineID")
             /\ ~shouldShutDown
             /\ pc = "update" \/ Called("UpdateThenPoll")
             /\ pc \notin {"lock", "shutdown", "unlock"}
             /\ ~Called("resourceManagedDiskUpdateWithVmShutDown")

C10_Witness ==
    /\ op = "update"
    /\ Attached
    /\ pc = "lock"
    /\ d # NoPlan
    /\ d.changed = {"disk_size_gb", "tags"}
    /\ env.ExpandWithoutDowntime
    /\ ~env.diskSupportsNoDowntimeResize

(***************************************************************************)
(* C11                                                                     *)
(***************************************************************************)
\* the configuration lacks what its create_option needs
CompanionMissing(rd) ==
    LET createOption == Get(rd, "create_option") IN
    \/ /\ createOption \in {"Import", "ImportSecure"}
       /\ Get(rd, "source_uri") = "" \/ Get(rd, "storage_account_id") = ""
    \/ /\ createOption \in {"Copy", "Restore"}
       /\ Get(rd, "source_resource_id") = ""
    \/ /\ createOption = "FromImage"
       /\ Get(rd, "image_reference_id") = ""
       /\ Get(rd, "gallery_image_reference_id") = ""
    \/ /\ createOption = "Upload"
       /\ Get(rd, "upload_size_bytes") = 0

\* payload p carries the CreationData fields of rd's create_option and no other
CompanionsOnly(rd, p) ==
    LET createOption == Get(rd, "create_option")
        import == createOption \in {"Import", "ImportSecure"}
        copy == createOption \in {"Copy", "Restore"}
        image == createOption = "FromImage" /\ Get(rd, "image_reference_id") # ""
        gallery == createOption = "FromImage" /\ Get(rd, "image_reference_id") = ""
    IN /\ p.SourceUri = IF import THEN Ptr(Get(rd, "source_uri")) ELSE Nil
       /\ p.StorageAccountId = IF import THEN Ptr(Get(rd, "storage_account_id")) ELSE Nil
       /\ p.SourceResourceId = IF copy THEN Ptr(Get(rd, "source_resource_id")) ELSE Nil
       /\ p.ImageReference = IF image THEN Ptr(Get(rd, "image_reference_id")) ELSE Nil
       /\ p.GalleryImageReference =
              IF gallery THEN Ptr(Get(rd, "gallery_image_reference_id")) ELSE Nil
       /\ p.UploadSizeBytes =
              IF createOption = "Upload" THEN Ptr(Get(rd, "upload_size_bytes")) ELSE Nil

\* the schema's ConflictsWith keeps a configuration from setting both image
\* references; on the inputs that set both, lines 433-445 take image_reference_id
ImageReferenceWins ==
    \A rd \in ConfigsSetting({"image_reference_id", "gallery_image_reference_id"}) :
        Get(rd, "create_option") = "FromImage" =>
            LET p == CreateFromImage(rd, CreateLocals(rd)).createDisk IN
            /\ p.ImageReference = Ptr(Get(rd, "image_reference_id"))
            /\ p.GalleryImageReference = Nil

\* C11: Create returns an error, before any API write, when the companion of its
\* create_option is missing: source_uri and storage_account_id for Import and
\* ImportSecure, source_resource_id for Copy and Restore, image_reference_id or
\* gallery_image_reference_id for FromImage (image_reference_id wins when both
\* are given), upload_size_bytes for Upload.  The payload an accepted Create
\* sends carries exactly the CreationData fields of its create_option, and none
\* of them for Empty.
C11_CreateOptionCompanions ==
    /\ ImageReferenceWins
    /\ (op = "create" /\ d # NoPlan) =>
           /\ CompanionMissing(d) =>
                  /\ pc = "done"
                  /\ result = "error"
                  /\ NothingWritten
           /\ PayloadComplete => ~CompanionMissing(d) /\ CompanionsOnly(d, payload[1])
           /\ sent # Nil => ~CompanionMissing(d) /\ CompanionsOnly(d, sent[1].body)

C11_Witness ==
    /\ op = "create"
    /\ d # NoPlan
    /\ Get(d, "create_option") = "Import"
    /\ Get(d, "source_uri") # ""
    /\ Get(d, "storage_account_id") = ""
    /\ pc = "done"
    /\ result = "error"

(***************************************************************************)
(* C12                                                                     *)
(***************************************************************************)
InsideHelper(p) == updates[p].pc = "helper"

\* the invocation has taken the lock of its VM and not released it
HoldsLock(p) ==
    \/ updates[p].pc \in {"shutdown", "helper", "unlock"}
    \/ updates[p].pc = "read" /\ updates[p].shouldShutDown

\* C12: of the concurrent Update invocations on disks attached to the same
\* virtual machine name, at most one is inside
\* resourceManagedDiskUpdateWithVmShutDown at any time; an invocation whose VM
\* name no other invocation has locked can take its lock, and an invocation on
\* the direct path can call UpdateThenPoll, whatever locks are held.
C12_MutualExclusionPerVm ==
    /\ \A p, q \in Procs :
          (p # q /\ InsideHelper(p) /\ InsideHelper(q)) =>
              VirtualMachineNameOf(p) # VirtualMachineNameOf(q)
    /\ \A p \in Procs : InsideHelper(p) => VirtualMachineNameOf(p) \in locks
    /\ \A p \in Procs :
          (/\ updates[p].pc = "lock"
           /\ \A q \in Procs \ {p} :
                 HoldsLock(q) => VirtualMachineNameOf(q) # VirtualMachineNameOf(p))
              => ENABLED ConcurrentLock(p)
    /\ \A p \in Procs : updates[p].pc = "update" => ENABLED ConcurrentUpdateThenPoll(p)

\* two invocations are inside the helper for different VMs while a third waits
\* for the lock one of them holds
C12_Witness ==
    \E p, q, r \in Procs :
        /\ InsideHelper(p) /\ InsideHelper(q)
        /\ VirtualMachineNameOf(p) # VirtualMachineNameOf(q)
        /\ updates[r].pc = "lock"
        /\ VirtualMachineNameOf(r) = VirtualMachineNameOf(p)
        /\ ~ENABLED ConcurrentLock(r)

====
